---- MODULE Spec2Model ----
(***************************************************************************)
(* A model of the ray caster of src/src/main.rs: the key-event / update /  *)
(* view loop over Model {player, moves, boundaries, resolution, fov,       *)
(* show2D}, and the geometry it rests on (Boundary::new, from_rect,        *)
(* Ray::new, Ray::intersect, the nearest-hit loop of view).                *)
(*                                                                         *)
(* Numbers.  An f32 is modelled as a pair <<n, d>>:                        *)
(*   d > 0, gcd(n, d) = 1, n # 0   the finite non-zero value n/d           *)
(*   <<0, 1>>, <<0, -1>>           +0.0 and -0.0                           *)
(*   <<1, 0>>, <<-1, 0>>           +infinity and -infinity                 *)
(*   <<0, 0>>                      NaN                                     *)
(* The operations follow IEEE 754 for the special values (x/0, 0/0,        *)
(* inf-inf, comparisons with NaN, the sign of a zero).  Finite results are *)
(* exact: rounding is not modelled.                                        *)
(***************************************************************************)
EXTENDS Integers, Sequences, FiniteSets

\* The value of the one element of a set.  An operator below takes its
\* arguments through it, Val({e : a \in {a_}}), so that an argument is
\* evaluated once, as a Rust function's is, however often e uses it.
Val(S) == CHOOSE r \in S : TRUE

RECURSIVE Gcd(_, _)
Gcd(a_, b_) == Val({ IF b = 0 THEN a ELSE Gcd(b, a % b) : a \in {a_}, b \in {b_} })

Abs(n_) == Val({ IF n < 0 THEN -n ELSE n : n \in {n_} })

NaN == <<0, 0>>
PosInf == <<1, 0>>
NegInf == <<-1, 0>>
PosZero == <<0, 1>>
NegZero == <<0, -1>>

IsNaN(a) == a = NaN
IsInf(a) == a[2] = 0 /\ a[1] # 0
IsZero(a) == a[1] = 0 /\ a[2] # 0
IsFinite(a) == a[2] # 0

\* The sign bit of a number that is not NaN: 1 or -1.
Sgn(a) == IF a[1] > 0 THEN 1 ELSE IF a[1] < 0 THEN -1 ELSE IF a[2] < 0 THEN -1 ELSE 1

SignedZero(s) == IF s < 0 THEN NegZero ELSE PosZero
SignedInf(s) == IF s < 0 THEN NegInf ELSE PosInf

\* The finite non-zero value n/d (d > 0, n # 0) in lowest terms.
Ratio(n_, d_) ==
    Val({ Val({ <<n \div g, d \div g>> : g \in {Gcd(Abs(n), d)} }) : n \in {n_}, d \in {d_} })

\* An integer, and a decimal literal m/10^k, as f32 values.
F(n_) == Val({ IF n = 0 THEN PosZero ELSE <<n, 1>> : n \in {n_} })
Frac(n, d) == IF n = 0 THEN PosZero ELSE Ratio(n, d)

FNeg(a_) ==
    Val({ IF IsNaN(a) THEN NaN
          ELSE IF IsZero(a) THEN <<0, -a[2]>>
          ELSE <<-a[1], a[2]>> : a \in {a_} })

FMul(a_, b_) ==
    Val({ IF IsNaN(a) \/ IsNaN(b) THEN NaN
          ELSE IF (IsZero(a) /\ IsInf(b)) \/ (IsInf(a) /\ IsZero(b)) THEN NaN
          ELSE IF IsInf(a) \/ IsInf(b) THEN SignedInf(Sgn(a) * Sgn(b))
          ELSE IF IsZero(a) \/ IsZero(b) THEN SignedZero(Sgn(a) * Sgn(b))
          ELSE Val({ <<(a[1] \div g1) * (b[1] \div g2), (a[2] \div g2) * (b[2] \div g1)>> :
                     g1 \in {Gcd(Abs(a[1]), b[2])}, g2 \in {Gcd(Abs(b[1]), a[2])} })
          : a \in {a_}, b \in {b_} })

FAdd(a_, b_) ==
    Val({ IF IsNaN(a) \/ IsNaN(b) THEN NaN
          ELSE IF IsInf(a) /\ IsInf(b) THEN (IF a = b THEN a ELSE NaN)
          ELSE IF IsInf(a) THEN a
          ELSE IF IsInf(b) THEN b
          ELSE IF IsZero(a) /\ IsZero(b) THEN (IF a = b THEN a ELSE PosZero)
          ELSE IF IsZero(a) THEN b
          ELSE IF IsZero(b) THEN a
          ELSE Val({ Val({ IF n = 0 THEN PosZero ELSE Ratio(n, (a[2] \div g) * b[2]) :
                           n \in {a[1] * (b[2] \div g) + b[1] * (a[2] \div g)} }) :
                     g \in {Gcd(a[2], b[2])} })
          : a \in {a_}, b \in {b_} })

FSub(a, b) == FAdd(a, FNeg(b))

FDiv(a_, b_) ==
    Val({ IF IsNaN(a) \/ IsNaN(b) THEN NaN
          ELSE IF (IsZero(a) /\ IsZero(b)) \/ (IsInf(a) /\ IsInf(b)) THEN NaN
          ELSE IF IsInf(a) \/ IsZero(b) THEN SignedInf(Sgn(a) * Sgn(b))
          ELSE IF IsZero(a) \/ IsInf(b) THEN SignedZero(Sgn(a) * Sgn(b))
          ELSE FMul(a, <<Sgn(b) * b[2], Abs(b[1])>>)
          : a \in {a_}, b \in {b_} })

\* a < b, a == b, a >= b, a > b as f32 compares them: false when either is
\* NaN, and -0.0 == +0.0.
FLt(a_, b_) ==
    \E a \in {a_}, b \in {b_} :
        /\ ~IsNaN(a)
        /\ ~IsNaN(b)
        /\ IF IsInf(a) \/ IsInf(b)
           THEN a # b /\ (a = NegInf \/ b = PosInf)
           ELSE a[1] * Abs(b[2]) < b[1] * Abs(a[2])

FEq(a_, b_) ==
    \E a \in {a_}, b \in {b_} :
        /\ ~IsNaN(a)
        /\ ~IsNaN(b)
        /\ IF IsInf(a) \/ IsInf(b) THEN a = b ELSE a[1] * Abs(b[2]) = b[1] * Abs(a[2])

FGe(a_, b_) == \E a \in {a_}, b \in {b_} : FLt(b, a) \/ FEq(a, b)
FGt(a, b) == FLt(b, a)

\* The largest r in lo..hi with r*r <= n.
RECURSIVE SqrtSearch(_, _, _)
SqrtSearch(n, lo_, hi_) ==
    Val({ IF lo >= hi THEN lo
          ELSE Val({ IF mid * mid <= n THEN SqrtSearch(n, mid, hi) ELSE SqrtSearch(n, lo, mid - 1) :
                     mid \in {(lo + hi + 1) \div 2} })
          : lo \in {lo_}, hi \in {hi_} })

ISqrt(n) == SqrtSearch(n, 0, IF n < 46340 THEN n ELSE 46340)

IsSquare(n) == n >= 0 /\ ISqrt(n) * ISqrt(n) = n

\* f32::sqrt.  Every length the model takes is that of a vector whose squared
\* length is the square of a rational (the inputs are chosen so); on any other
\* argument the operator has no value and the evaluation stops.
FSqrt(a_) ==
    Val({ IF IsNaN(a) THEN NaN
          ELSE IF IsZero(a) THEN a
          ELSE IF Sgn(a) < 0 THEN NaN
          ELSE IF IsInf(a) THEN PosInf
          ELSE CHOOSE r \in {<<ISqrt(a[1]), ISqrt(a[2])>>} :
                   r[1] * r[1] = a[1] /\ r[2] * r[2] = a[2]
          : a \in {a_} })

(***************************************************************************)
(* Vectors (Vec2, Point2) are records [x, y] of f32 values.                *)
(***************************************************************************)
vec2(x, y) == [x |-> x, y |-> y]
pt2(x, y) == vec2(x, y)

VAdd(a_, b_) == Val({ vec2(FAdd(a.x, b.x), FAdd(a.y, b.y)) : a \in {a_}, b \in {b_} })
VSub(a_, b_) == Val({ vec2(FSub(a.x, b.x), FSub(a.y, b.y)) : a \in {a_}, b \in {b_} })
VScale(v_, s_) == Val({ vec2(FMul(v.x, s), FMul(v.y, s)) : v \in {v_}, s \in {s_} })
VEq(a_, b_) == \E a \in {a_}, b \in {b_} : FEq(a.x, b.x) /\ FEq(a.y, b.y)

\* Vec2::length, Vec2::normalize (v * (1 / |v|)) and Vec2::perp.
length(v_) == Val({ FSqrt(FAdd(FMul(v.x, v.x), FMul(v.y, v.y))) : v \in {v_} })
normalize(v_) == Val({ VScale(v, FDiv(F(1), length(v))) : v \in {v_} })
perp(v_) == Val({ vec2(FNeg(v.y), v.x) : v \in {v_} })

\* (cos, sin) of an angle in radians.  cos and sin of a non-zero rational angle
\* are irrational, and an f32 holds an approximation of them; the model holds
\* the approximation (4/5, 3/5) of a rotation for every angle above zero and
\* its mirror image (4/5, -3/5) for every angle below zero, so that the
\* rotated vector stays a unit vector with rational coordinates.
sin_cos(theta_) ==
    Val({ IF IsNaN(theta) \/ IsInf(theta) THEN [cos |-> NaN, sin |-> NaN]
          ELSE IF IsZero(theta) THEN [cos |-> F(1), sin |-> theta]
          ELSE IF Sgn(theta) > 0 THEN [cos |-> Frac(4, 5), sin |-> Frac(3, 5)]
          ELSE [cos |-> Frac(4, 5), sin |-> Frac(-3, 5)]
          : theta \in {theta_} })

\* Vec2Rotate::rotate: the vector turned by theta radians.
rotate(v_, theta) ==
    Val({ vec2(FSub(FMul(v.x, t.cos), FMul(v.y, t.sin)),
               FAdd(FMul(v.x, t.sin), FMul(v.y, t.cos)))
          : v \in {v_}, t \in {sin_cos(theta)} })

\* Option<T>: None, Some(v).
None == <<>>
Some(v) == <<v>>
IsSome(o) == Len(o) = 1
Unwrap(o) == o[1]

(***************************************************************************)
(* Boundary, Player, Ray.                                                  *)
(***************************************************************************)
Boundary_new(start, end) ==
    Val({ [origin |-> start, dir |-> normalize(d), length |-> length(d)] :
          d \in {VSub(end, start)} })

\* from_rect with its third edge a copy of the first: no right edge.
from_rect_no_right(rect_) ==
    Val({ << Boundary_new(pt2(rect.x.start, rect.y.start), pt2(rect.x.start, rect.y.end)),
             Boundary_new(pt2(rect.x.start, rect.y.start), pt2(rect.x.end, rect.y.start)),
             Boundary_new(pt2(rect.x.start, rect.y.start), pt2(rect.x.start, rect.y.end)),
             Boundary_new(pt2(rect.x.end, rect.y.end), pt2(rect.x.start, rect.y.end)) >>
          : rect \in {rect_} })

\* A Rect is [x |-> [start, end], y |-> [start, end]].
from_rect(rect_) ==
    Val({ << Boundary_new(pt2(rect.x.start, rect.y.start), pt2(rect.x.start, rect.y.end)),
             Boundary_new(pt2(rect.x.start, rect.y.start), pt2(rect.x.end, rect.y.start)),
             Boundary_new(pt2(rect.x.end, rect.y.end), pt2(rect.x.end, rect.y.start)),
             Boundary_new(pt2(rect.x.end, rect.y.end), pt2(rect.x.start, rect.y.end)) >>
          : rect \in {rect_} })

Player_new == [pos |-> pt2(F(0), F(0)), look_dir |-> vec2(F(1), F(0))]

Ray_new(player, d_theta) ==
    [origin |-> player.pos,
     dir |-> normalize(rotate(player.look_dir, d_theta)),
     end |-> None,
     length |-> None,
     luminosity |-> None]

\* The locals of Ray::intersect when it reaches its test (lines 141-149): the
\* determinant and the two quotients k and lambda.
intersect_locals(self_, boundary_) ==
    Val({ Val({ [determinant |-> determinant,
                 k |-> FDiv(k, determinant),
                 lambda |-> FDiv(lambda, determinant)]
                : determinant \in {FSub(FMul(self.dir.x, boundary.dir.y),
                                        FMul(boundary.dir.x, self.dir.y))},
                  k \in {FSub(FMul(self.dir.x, FSub(self.origin.y, boundary.origin.y)),
                              FMul(self.dir.y, FSub(self.origin.x, boundary.origin.x)))},
                  lambda \in {FSub(FMul(boundary.dir.x, FSub(self.origin.y, boundary.origin.y)),
                                   FMul(boundary.dir.y, FSub(self.origin.x, boundary.origin.x)))} })
          : self \in {self_}, boundary \in {boundary_} })

\* intersect with the far end of the boundary inside the range (k <= length).
intersect_closed_range(self, boundary_) ==
    Val({ IF FGe(l.lambda, F(0)) /\ FGe(l.k, F(0)) /\ ~FGt(l.k, boundary.length)
          THEN Some(<< VAdd(boundary.origin, VScale(boundary.dir, l.k)),
                       FAdd(FDiv(F(5000), FMul(FDiv(l.lambda, F(5)), FDiv(l.lambda, F(5)))),
                            Frac(2, 10)) >>)
          ELSE None
          : boundary \in {boundary_}, l \in {intersect_locals(self, boundary_)} })

\* intersect without the test k >= 0.
intersect_no_lower_bound(self, boundary_) ==
    Val({ IF FGe(l.lambda, F(0)) /\ FLt(l.k, boundary.length)
          THEN Some(<< VAdd(boundary.origin, VScale(boundary.dir, l.k)),
                       FAdd(FDiv(F(5000), FMul(FDiv(l.lambda, F(5)), FDiv(l.lambda, F(5)))),
                            Frac(2, 10)) >>)
          ELSE None
          : boundary \in {boundary_}, l \in {intersect_locals(self, boundary_)} })

\* Ray::intersect: Some(<<point, luminosity>>) or None.  (Its third parameter,
\* the player, is not used.)
intersect(self, boundary_) ==
    Val({ IF FGe(l.lambda, F(0)) /\ FGe(l.k, F(0)) /\ FLt(l.k, boundary.length)
          THEN Some(<< VAdd(boundary.origin, VScale(boundary.dir, l.k)),
                       FAdd(FDiv(F(5000), FMul(FDiv(l.lambda, F(5)), FDiv(l.lambda, F(5)))),
                            Frac(2, 10)) >>)
          ELSE None
          : boundary \in {boundary_}, l \in {intersect_locals(self, boundary_)} })

\* The loop's turn with the first hit kept: a later hit never replaces it.
test_boundary_first_wins(ray_, boundary) ==
    Val({ IF IsSome(new_point) /\ ~IsSome(ray.end)
          THEN [ray EXCEPT !.end = Some(Unwrap(new_point)[1]),
                           !.length = Some(length(VSub(Unwrap(new_point)[1], ray.origin))),
                           !.luminosity = Some(Unwrap(new_point)[2])]
          ELSE ray
          : ray \in {ray_}, new_point \in {intersect(ray_, boundary)} })

\* One turn of the loop of view over the boundaries (lines 280-297): the ray
\* after it has tested `boundary`.
test_boundary(ray_, boundary) ==
    Val({ IF IsSome(new_point)
          THEN Val({ IF IsSome(ray.end)
                     THEN IF FLt(length(VSub(point, ray.origin)),
                                 length(VSub(Unwrap(ray.end), ray.origin)))
                          THEN [ray EXCEPT !.end = Some(point),
                                           !.length = Some(length(VSub(point, ray.origin))),
                                           !.luminosity = Some(luminosity)]
                          ELSE ray
                     ELSE [ray EXCEPT !.end = Some(point),
                                      !.length = Some(length(VSub(point, ray.origin))),
                                      !.luminosity = Some(luminosity)]
                     : point \in {Unwrap(new_point)[1]}, luminosity \in {Unwrap(new_point)[2]} })
          ELSE ray
          : ray \in {ray_}, new_point \in {intersect(ray_, boundary)} })

\* The loop of view over the boundaries (line 279): the ray after it has
\* tested them all, in their order.
RECURSIVE cast(_, _)
cast(ray_, boundaries_) ==
    Val({ IF boundaries = <<>> THEN ray
          ELSE cast(test_boundary(ray, Head(boundaries)), Tail(boundaries))
          : ray \in {ray_}, boundaries \in {boundaries_} })

(***************************************************************************)
(* Moves.                                                                  *)
(***************************************************************************)
Moves_new ==
    [up |-> FALSE, down |-> FALSE, left |-> FALSE, right |-> FALSE,
     clock |-> FALSE, anti_clock |-> FALSE]

\* A KeyboardInput is [virtual_keycode |-> None or Some(a key), state |->
\* "Pressed" or "Released"]; "Other" stands for every key the match of
\* update_moves does not name.
Keys == {"W", "A", "S", "D", "Right", "Left"}
KeyCodes == Keys \cup {"Other"}
ElementStates == {"Pressed", "Released"}

\* update_moves with the arms of A and D exchanged.
update_moves_swapped(self, key) ==
    IF IsSome(key.virtual_keycode)
    THEN Val({ CASE data = "W" -> [self EXCEPT !.up = state]
                 [] data = "A" -> [self EXCEPT !.right = state]
                 [] data = "S" -> [self EXCEPT !.down = state]
                 [] data = "D" -> [self EXCEPT !.left = state]
                 [] data = "Right" -> [self EXCEPT !.clock = state]
                 [] data = "Left" -> [self EXCEPT !.anti_clock = state]
                 [] OTHER -> self
               : data \in {Unwrap(key.virtual_keycode)}, state \in {key.state = "Pressed"} })
    ELSE self

update_moves(self, key) ==
    IF IsSome(key.virtual_keycode)
    THEN Val({ CASE data = "W" -> [self EXCEPT !.up = state]
                 [] data = "A" -> [self EXCEPT !.left = state]
                 [] data = "S" -> [self EXCEPT !.down = state]
                 [] data = "D" -> [self EXCEPT !.right = state]
                 [] data = "Right" -> [self EXCEPT !.clock = state]
                 [] data = "Left" -> [self EXCEPT !.anti_clock = state]
                 [] OTHER -> self
               : data \in {Unwrap(key.virtual_keycode)}, state \in {key.state = "Pressed"} })
    ELSE self

update_player_pos(self, vel) == [self EXCEPT !.pos = VAdd(self.pos, vel)]

update_player_look_dir(self, d_theta) ==
    [self EXCEPT !.look_dir = normalize(rotate(self.look_dir, d_theta))]

\* update_vec with down adding look_dir * 2.5, as up does.
update_vec_down_adds(self, look_dir_) ==
    Val({ Val({ Val({ Val({ IF self.right THEN VAdd(v3, VScale(perp(look_dir), Frac(25, 10))) ELSE v3
                            : v3 \in {IF self.left
                                      THEN VSub(v2, VScale(perp(look_dir), Frac(25, 10)))
                                      ELSE v2} })
                      : v2 \in {IF self.down THEN VAdd(v1, VScale(look_dir, Frac(25, 10))) ELSE v1} })
                : v1 \in {IF self.up
                          THEN VAdd(vec2(F(0), F(0)), VScale(look_dir, Frac(25, 10)))
                          ELSE vec2(F(0), F(0))} })
          : look_dir \in {look_dir_} })

\* The sums of Moves::update_player (lines 74-94): update_vec and update_theta.
update_vec(self, look_dir_) ==
    Val({ Val({ Val({ Val({ IF self.right THEN VAdd(v3, VScale(perp(look_dir), Frac(25, 10))) ELSE v3
                            : v3 \in {IF self.left
                                      THEN VSub(v2, VScale(perp(look_dir), Frac(25, 10)))
                                      ELSE v2} })
                      : v2 \in {IF self.down THEN VSub(v1, VScale(look_dir, Frac(25, 10))) ELSE v1} })
                : v1 \in {IF self.up
                          THEN VAdd(vec2(F(0), F(0)), VScale(look_dir, Frac(25, 10)))
                          ELSE vec2(F(0), F(0))} })
          : look_dir \in {look_dir_} })

update_theta(self) ==
    Val({ IF self.anti_clock THEN FSub(t1, Frac(5, 100)) ELSE t1
          : t1 \in {IF self.clock THEN FAdd(F(0), Frac(5, 100)) ELSE F(0)} })

\* Moves::update_player: the player after one tick.
update_player(self, player) ==
    update_player_look_dir(update_player_pos(player, update_vec(self, player.look_dir)),
                           update_theta(self))

(***************************************************************************)
(* The application: model, event, update, view.                            *)
(***************************************************************************)
\* fn model: the Model built from the window's rectangle.
model_new(window_rect) ==
    [player |-> Player_new,
     moves |-> Moves_new,
     boundaries |-> from_rect(window_rect),
     resolution |-> 5,
     fov |-> F(60),
     show2D |-> FALSE]

\* event moving the player as well: every key event also integrates.
event_moves_player(m, ev) ==
    IF ev.kind = "DeviceKey"
    THEN [m EXCEPT !.moves = update_moves(m.moves, ev.key),
                   !.player = update_player(m.moves, m.player)]
    ELSE m

\* event switching the render mode on a key event without a key code.
event_toggles_mode(m, ev) ==
    IF ev.kind = "DeviceKey"
    THEN [m EXCEPT !.moves = update_moves(m.moves, ev.key),
                   !.show2D = IF IsSome(ev.key.virtual_keycode) THEN @ ELSE ~@]
    ELSE m

\* fn event.  An Event is [kind |-> "DeviceKey", key |-> a KeyboardInput], or
\* [kind |-> "Other"] for every event that is not a device's key event.
event(m, ev) ==
    IF ev.kind = "DeviceKey"
    THEN [m EXCEPT !.moves = update_moves(m.moves, ev.key)]
    ELSE m

\* fn update.
update(m) == [m EXCEPT !.player = update_player(m.moves, m.player)]

\* `x as i32` of a finite f32, and i32 / i32: both round toward zero.
AsI32(a_) == Val({ IF a[1] < 0 THEN -((-a[1]) \div a[2]) ELSE a[1] \div a[2] : a \in {a_} })
DivI32(a_, b_) ==
    Val({ IF (a < 0) = (b < 0) THEN Abs(a) \div Abs(b) ELSE -(Abs(a) \div Abs(b))
          : a \in {a_}, b \in {b_} })

\* nannou::math::map_range.
map_range(val, in_min_, in_max, out_min_, out_max) ==
    Val({ FAdd(FMul(FDiv(FSub(val, in_min), FSub(in_max, in_min)), FSub(out_max, out_min)),
               out_min)
          : in_min \in {in_min_}, out_min \in {out_min_} })

\* The angle of column i (lines 268-275).
column_angle(m, rect, i) ==
    Val({ map_range(FDiv(F(i), FDiv(rect.x.end, F(m.resolution))), F(-1), F(1), FNeg(half), half)
          : half \in {FDiv(FMul(m.fov, Frac(314159265, 100000000)), FMul(F(2), F(180)))} })

\* What the loop over the boundaries did for one ray (lines 277-298): the ray
\* after the loop, and for each boundary the locals of intersect and its result.
view_ray(m_, angle_) ==
    Val({ Val({ [angle |-> angle,
                 ray |-> cast(ray, m.boundaries),
                 tests |-> [b \in 1..Len(m.boundaries) |->
                              [locals |-> intersect_locals(ray, m.boundaries[b]),
                               new_point |-> intersect(ray, m.boundaries[b])]]]
                : ray \in {Ray_new(m.player, angle)} })
          : m \in {m_}, angle \in {angle_} })

\* What view draws for one column (lines 300-330).
draw_column(m, i, angle, ray_) ==
    IF m.show2D
    THEN Val({ [kind |-> "line", start |-> ray.origin,
                end |-> IF IsSome(ray.end) THEN Unwrap(ray.end)
                        ELSE VAdd(ray.origin, VScale(ray.dir, F(1000)))]
               : ray \in {ray_} })
    ELSE Val({ [kind |-> "rect", x |-> F(i * m.resolution), w |-> F(m.resolution),
                h |-> IF IsSome(ray.length)
                      THEN FDiv(F(100000), FMul(Unwrap(ray.length), sin_cos(angle).cos))
                      ELSE F(0),
                light |-> light,
                alpha |-> map_range(light, Frac(9, 10), Frac(2, 10), F(1), F(0))]
               : ray \in {ray_},
                 light \in {IF IsSome(ray_.luminosity)
                            THEN (IF FGt(Unwrap(ray_.luminosity), Frac(9, 10))
                                  THEN Frac(9, 10)
                                  ELSE Unwrap(ray_.luminosity))
                            ELSE F(0)} })

\* The columns of view (lines 265-267).
Columns(m, rect) ==
    Val({ [n \in 1..(IF hi > lo THEN hi - lo ELSE 0) |-> lo + n - 1]
          : lo \in {DivI32(AsI32(rect.x.start), m.resolution)},
            hi \in {DivI32(AsI32(rect.x.end), m.resolution)} })

\* fn view: the rays it casts, and what it draws.
view(rect_, m_) ==
    Val({ Val({ [rays |-> rs,
                 frame |->
                   [n \in 1..Len(cols) |-> draw_column(m, cols[n], rs[n].angle, rs[n].ray)]
                   \o (IF m.show2D
                       THEN [b \in 1..Len(m.boundaries) |->
                               [kind |-> "line", start |-> m.boundaries[b].origin,
                                end |-> VAdd(m.boundaries[b].origin,
                                             VScale(m.boundaries[b].dir, m.boundaries[b].length))]]
                            \o << [kind |-> "ellipse", xy |-> m.player.pos],
                                  [kind |-> "line", start |-> m.player.pos,
                                   end |-> VAdd(m.player.pos, VScale(m.player.look_dir, F(50)))] >>
                       ELSE <<>>)]
                : rs \in {[n \in 1..Len(cols) |->
                            Val({ [angle |-> angle,
                                   ray |-> cast(Ray_new(m.player, angle), m.boundaries)]
                                  : angle \in {column_angle(m, rect, cols[n])} })]} })
          : rect \in {rect_}, m \in {m_}, cols \in {Columns(m_, rect_)} })

(***************************************************************************)
(* The state.                                                              *)
(*   model     the Model                                                   *)
(*   window    app.window_rect()                                           *)
(*   pc        where the host's loop stands: "events" (it delivers events, *)
(*             then calls update) or "view" (update has run, view is next) *)
(*   rays      the rays of the last view, each with its angle and as the   *)
(*             loop over the boundaries left it                            *)
(*   frame     what the last view drew                                     *)
(*   ticks     the number of calls of update                               *)
(*   pressed   for each of the six keys, whether the most recent event for *)
(*             it was a press (history, for the claims)                    *)
(***************************************************************************)
VARIABLES model, window, pc, rays, frame, ticks, pressed

vars == <<model, window, pc, rays, frame, ticks, pressed>>

\* The bounds of the model: the calls of update in a run, and the largest
\* denominator of a coordinate of look_dir (one turn away from the initial
\* direction at most).
MaxTicks == 2
MaxLookDen == 5

Rect(x0, x1, y0, y1) ==
    [x |-> [start |-> F(x0), end |-> F(x1)], y |-> [start |-> F(y0), end |-> F(y1)]]

\* The window: 10 x 10, centred on the origin as nannou's are; two columns.
Windows == {Rect(-5, 5, -5, 5)}

KeyboardInputs ==
    [virtual_keycode : {None} \cup {Some(c) : c \in KeyCodes}, state : ElementStates]

Events == {[kind |-> "DeviceKey", key |-> k] : k \in KeyboardInputs} \cup {[kind |-> "Other"]}

Init ==
    /\ window \in Windows
    /\ model = model_new(window)
    /\ pc = "events"
    /\ rays = <<>>
    /\ frame = <<>>
    /\ ticks = 0
    /\ pressed = [k \in Keys |-> FALSE]

\* The most recent event of each key, after ev.
Pressed(ev) ==
    IF ev.kind = "DeviceKey" /\ IsSome(ev.key.virtual_keycode)
       /\ Unwrap(ev.key.virtual_keycode) \in Keys
    THEN [pressed EXCEPT ![Unwrap(ev.key.virtual_keycode)] = (ev.key.state = "Pressed")]
    ELSE pressed

Event ==
    /\ pc = "events"
    /\ \E ev \in Events :
         /\ model' = event(model, ev)
         /\ pressed' = Pressed(ev)
    /\ UNCHANGED <<window, pc, rays, frame, ticks>>

Update ==
    /\ pc = "events"
    /\ ticks < MaxTicks
    /\ \E m \in {update(model)} :
         /\ m.player.look_dir.x[2] <= MaxLookDen
         /\ model' = m
    /\ ticks' = ticks + 1
    /\ pc' = "view"
    /\ UNCHANGED <<window, rays, frame, pressed>>

View ==
    /\ pc = "view"
    /\ \E v \in {view(window, model)} :
         /\ rays' = v.rays
         /\ frame' = v.frame
    /\ pc' = "events"
    /\ UNCHANGED <<model, window, ticks, pressed>>

Next == Event \/ Update \/ View

Spec == Init /\ [][Next]_vars

(***************************************************************************)
(* The claims about the application, checked under Spec.                   *)
(***************************************************************************)
\* C5: after any sequence of key events and update ticks, each of the six
\* flags is true exactly when the most recent event of its own key (W, S, A,
\* D, Right, Left) was a press; no event of another key, of a key the match
\* does not name or without a key code, and no update tick, changes it.
C5_FlagsFollowKeys ==
    /\ model.moves.up = pressed["W"]
    /\ model.moves.down = pressed["S"]
    /\ model.moves.left = pressed["A"]
    /\ model.moves.right = pressed["D"]
    /\ model.moves.clock = pressed["Right"]
    /\ model.moves.anti_clock = pressed["Left"]

\* Two ticks have run, A and Right are held and the other four keys are not.
C5_Witness ==
    /\ ticks = 2
    /\ model.moves.left /\ model.moves.clock
    /\ ~model.moves.up /\ ~model.moves.down /\ ~model.moves.right /\ ~model.moves.anti_clock
    /\ pressed["A"] /\ pressed["Right"]

\* The steps of update: the host's loop goes from "events" to "view".
IsUpdateStep == pc = "events" /\ pc' = "view"
IsEventStep == pc = "events" /\ pc' = "events"
IsViewStep == pc = "view" /\ pc' = "events"

Sign(plus, minus) == (IF plus THEN 1 ELSE 0) - (IF minus THEN 1 ELSE 0)

\* C6: one tick of update adds to pos the sum of the active contributions
\* (look_dir * 2.5 for up, its opposite for down, perp(look_dir) * 2.5 for
\* right, its opposite for left) and turns look_dir by the sum of 0.05 for
\* clock and -0.05 for anti_clock; up and down together contribute the zero
\* vector, clock and anti_clock together no turn, and up alone with look_dir
\* = (1,0) moves pos by (2.5, 0).
C6_TickSumsContributions ==
    [][IsUpdateStep =>
         \E mv \in {model.moves}, look \in {model.player.look_dir}, pos \in {model.player.pos},
            pos2 \in {model'.player.pos}, look2 \in {model'.player.look_dir} :
             \E ahead \in {VScale(look, FMul(F(Sign(mv.up, mv.down)), Frac(25, 10)))},
                aside \in {VScale(perp(look), FMul(F(Sign(mv.right, mv.left)), Frac(25, 10)))},
                turn \in {FMul(F(Sign(mv.clock, mv.anti_clock)), Frac(5, 100))} :
                 /\ VEq(pos2, VAdd(pos, VAdd(ahead, aside)))
                 /\ VEq(look2, normalize(rotate(look, turn)))
                 /\ mv.up /\ mv.down => VEq(pos2, VAdd(pos, aside))
                 /\ mv.up /\ mv.down /\ (mv.left <=> mv.right) => VEq(pos2, pos)
                 /\ mv.clock /\ mv.anti_clock => VEq(look2, look)
                 /\ (mv.clock <=> mv.anti_clock) <=> VEq(look2, look)
                 /\ (mv.up /\ ~mv.down /\ ~mv.left /\ ~mv.right
                     /\ VEq(look, vec2(F(1), F(0)))) =>
                        VEq(pos2, VAdd(pos, vec2(Frac(25, 10), F(0))))]_vars

\* The first tick has run with up alone active, from the initial pose: the
\* player stands at (2.5, 0).
C6_Witness ==
    /\ ticks = 1 /\ pc = "view"
    /\ model.moves = [Moves_new EXCEPT !.up = TRUE]
    /\ VEq(model.player.pos, pt2(Frac(25, 10), F(0)))
    /\ VEq(model.player.look_dir, vec2(F(1), F(0)))

\* C8: the pose of the player changes once per frame, in update, by one
\* translation then one rotation: a key event changes nothing of the model
\* but the flags, view changes neither the pose nor the flags, update runs
\* once between two views, and every ray of a view starts at the player's
\* position along the player's look_dir turned by the ray's angle.
C8_PoseMutatedOncePerFrame ==
    [][/\ IsEventStep => /\ model'.player = model.player
                         /\ model' = [model EXCEPT !.moves = model'.moves]
       /\ IsViewStep =>
            /\ model' = model
            /\ rays' # <<>>
            /\ \A r \in 1..Len(rays') :
                 /\ rays'[r].ray.origin = model.player.pos
                 /\ rays'[r].ray.dir = normalize(rotate(model.player.look_dir, rays'[r].angle))
       /\ IsUpdateStep =>
            /\ ticks' = ticks + 1
            /\ model'.moves = model.moves
            /\ model'.player =
                 [pos |-> VAdd(model.player.pos, update_vec(model.moves, model.player.look_dir)),
                  look_dir |-> normalize(rotate(model.player.look_dir, update_theta(model.moves)))]
       /\ model'.player # model.player => IsUpdateStep
       /\ pc = "view" => ~IsUpdateStep]_vars

\* A frame was drawn after an update that moved and turned the player, and
\* the first and the last ray of the frame start where the player stands.
C8_Witness ==
    /\ pc = "events" /\ ticks = 1 /\ rays # <<>>
    /\ ~VEq(model.player.pos, Player_new.pos)
    /\ ~VEq(model.player.look_dir, Player_new.look_dir)
    /\ rays[1].ray.origin = model.player.pos
    /\ rays[Len(rays)].ray.origin = model.player.pos

\* Boundary b runs from start to end.
EdgeIs(b, start, end) ==
    /\ VEq(b.origin, start)
    /\ VEq(VAdd(b.origin, VScale(b.dir, b.length)), end)

\* C10: in every reachable state the boundaries are the four edges built at
\* setup, resolution is 5 and fov is 60, and the render mode is one of two
\* values and is the initial one, pseudo-3D (show2D = false).
C10_ConfigurationFixed ==
    /\ Len(model.boundaries) = 4
    /\ \E lo \in {pt2(window.x.start, window.y.start)}, hi \in {pt2(window.x.end, window.y.end)} :
         /\ EdgeIs(model.boundaries[1], lo, pt2(lo.x, hi.y))
         /\ EdgeIs(model.boundaries[2], lo, pt2(hi.x, lo.y))
         /\ EdgeIs(model.boundaries[3], hi, pt2(hi.x, lo.y))
         /\ EdgeIs(model.boundaries[4], hi, pt2(lo.x, hi.y))
    /\ model.resolution = 5
    /\ FEq(model.fov, F(60))
    /\ model.show2D \in BOOLEAN
    /\ model.show2D = FALSE
    /\ \A c \in 1..Len(frame) : frame[c].kind = "rect"

\* Keys were pressed, including one the match does not name, two ticks ran
\* and two frames were drawn as columns.
C10_Witness ==
    /\ ticks = 2 /\ pc = "events" /\ frame # <<>>
    /\ model.moves.up /\ model.moves.anti_clock
    /\ ~VEq(model.player.pos, Player_new.pos)
    /\ model.show2D = FALSE

(***************************************************************************)
(* The geometry on its own: Boundary::new, from_rect, Ray::new and the     *)
(* loop over the boundaries, applied to inputs drawn from the sets below.  *)
(* Every direction is a unit vector with rational coordinates and every    *)
(* segment has a rational length.  A ray of rays also records, for each    *)
(* boundary, the locals of intersect and what it returned.                 *)
(***************************************************************************)
MaxBoundaries == 2

Point(p) == pt2(F(p[1]), F(p[2]))

GeomRects == {Rect(0, 6, 0, 8), Rect(0, 100, 0, 100), Rect(-5, 5, -5, 5), Rect(0, 0, 0, 8)}

\* Two diagonals of the 6 x 8 rectangle, and a segment of no length.
GeomSegments ==
    {<<<<0, 0>>, <<6, 8>>>>, <<<<0, 8>>, <<6, 0>>>>, <<<<3, 4>>, <<3, 4>>>>}

Axes == {<<1, 0>>, <<0, 1>>, <<-1, 0>>, <<0, -1>>}
Obliques == {<<x, y>> : x \in {-3, 3}, y \in {-4, 4}} \cup {<<x, y>> : x \in {-4, 4}, y \in {-3, 3}}

UnitVec(d) == IF d \in Axes THEN vec2(F(d[1]), F(d[2])) ELSE vec2(Frac(d[1], 5), Frac(d[2], 5))

\* Where the player stands and looks: the centre of the 6 x 8 rectangle (its
\* corners lie along the oblique directions), the centre of the 100 x 100
\* square, a point of the line x = 0 beyond the rectangles, a point outside
\* them, and a corner.
GeomPoses ==
    {<<<<3, 4>>, d>> : d \in Axes \cup Obliques}
    \cup {<<<<50, 50>>, d>> : d \in {<<1, 0>>, <<0, 1>>}}
    \cup {<<<<0, 12>>, d>> : d \in {<<0, -1>>, <<0, 1>>, <<3, -4>>}}
    \cup {<<<<-3, 4>>, d>> : d \in {<<1, 0>>, <<-1, 0>>, <<4, 3>>}}
    \cup {<<<<6, 8>>, d>> : d \in {<<-1, 0>>, <<-3, -4>>}}

GeomAngles == {F(0), Frac(5, 100), Frac(-5, 100)}

\* The player stands and looks as one of the poses says; no boundary is built
\* yet and no ray is cast.
GeomInit ==
    /\ window = Rect(-5, 5, -5, 5)
    /\ \E p \in GeomPoses :
         model = [model_new(window) EXCEPT !.boundaries = <<>>,
                                           !.player = [pos |-> Point(p[1]),
                                                       look_dir |-> UnitVec(p[2])]]
    /\ pc = "events"
    /\ rays = <<>>
    /\ frame = <<>>
    /\ ticks = 0
    /\ pressed = [k \in Keys |-> FALSE]

\* Boundary::new on a segment, the boundary pushed onto the list.
PushBoundary ==
    /\ rays = <<>>
    /\ Len(model.boundaries) < MaxBoundaries
    /\ \E s \in GeomSegments :
         model' = [model EXCEPT !.boundaries = Append(@, Boundary_new(Point(s[1]), Point(s[2])))]
    /\ UNCHANGED <<window, pc, rays, frame, ticks, pressed>>

\* Boundary::from_rect on a rectangle, as fn model calls it.
SetRect ==
    /\ rays = <<>>
    /\ model.boundaries = <<>>
    /\ \E r \in GeomRects : model' = [model EXCEPT !.boundaries = from_rect(r)]
    /\ UNCHANGED <<window, pc, rays, frame, ticks, pressed>>

\* One ray of view: Ray::new at an angle, the loop over the boundaries, and
\* the column drawn.
CastRay ==
    /\ rays = <<>>
    /\ \E a \in GeomAngles :
         \E r \in {view_ray(model, a)} :
             /\ rays' = <<r>>
             /\ frame' = <<draw_column(model, 0, a, r.ray)>>
    /\ UNCHANGED <<model, window, pc, ticks, pressed>>

GeomNext == PushBoundary \/ SetRect \/ CastRay

GeomSpec == GeomInit /\ [][GeomNext]_vars

(***************************************************************************)
(* The claims about the geometry, checked under GeomSpec.  A state with    *)
(* rays # <<>> is one where a ray was cast against model.boundaries.       *)
(***************************************************************************)
Tests == {<<r, b>> : r \in 1..Len(rays), b \in 1..Len(model.boundaries)}
TestOf(t) == rays[t[1]].tests[t[2]]
BoundaryOf(t) == model.boundaries[t[2]]
RayOf(t) == rays[t[1]].ray

\* The parameters of the crossing of the ray's line and the boundary's line by
\* Cramer's rule: k along the boundary, lambda along the ray.
CramerDet(ray, b) == FSub(FMul(ray.dir.x, b.dir.y), FMul(b.dir.x, ray.dir.y))
CramerK(ray, b) ==
    FDiv(FSub(FMul(ray.dir.x, FSub(ray.origin.y, b.origin.y)),
              FMul(ray.dir.y, FSub(ray.origin.x, b.origin.x))),
         CramerDet(ray, b))
CramerLambda(ray, b) ==
    FDiv(FSub(FMul(b.dir.x, FSub(ray.origin.y, b.origin.y)),
              FMul(b.dir.y, FSub(ray.origin.x, b.origin.x))),
         CramerDet(ray, b))
InRange(ray, b) ==
    \E k \in {CramerK(ray, b)}, lambda \in {CramerLambda(ray, b)} :
        FGe(lambda, F(0)) /\ FGe(k, F(0)) /\ FLt(k, b.length)

\* C1: against a boundary with a non-zero determinant, intersect returns a hit
\* exactly when lambda >= 0 and 0 <= k < boundary.length; the point of a hit is
\* boundary.origin + k * boundary.dir, which is also origin + lambda * dir of
\* the ray: a point of the segment, in front of the ray's origin.
C1_HitIffInRange ==
    \A t \in Tests :
        \E ray \in {RayOf(t)}, b \in {BoundaryOf(t)}, res \in {TestOf(t).new_point} :
            ~FEq(CramerDet(ray, b), F(0)) =>
                /\ IsSome(res) <=> InRange(ray, b)
                /\ IsSome(res) =>
                     /\ VEq(Unwrap(res)[1], VAdd(b.origin, VScale(b.dir, CramerK(ray, b))))
                     /\ VEq(Unwrap(res)[1], VAdd(ray.origin, VScale(ray.dir, CramerLambda(ray, b))))

\* A ray was cast that one boundary with a non-zero determinant stops and
\* another, also with a non-zero determinant, does not.
C1_Witness ==
    /\ \E t \in Tests :
         ~FEq(TestOf(t).locals.determinant, F(0)) /\ IsSome(TestOf(t).new_point)
    /\ \E t \in Tests :
         /\ ~FEq(TestOf(t).locals.determinant, F(0))
         /\ ~IsNaN(TestOf(t).locals.determinant)
         /\ ~IsSome(TestOf(t).new_point)

\* C2, as amended: against a boundary with a determinant of exactly 0,
\* intersect returns no hit, wherever the ray starts; the division by zero is
\* performed, and k and lambda are each an infinity or NaN.
C2_ParallelNoHit ==
    \A t \in Tests :
        FEq(TestOf(t).locals.determinant, F(0)) =>
            /\ TestOf(t).new_point = None
            /\ ~IsFinite(TestOf(t).locals.k)
            /\ ~IsFinite(TestOf(t).locals.lambda)

\* C2, as claimed: no hit, and the division by zero is guarded rather than
\* performed, so that no quotient of intersect is an infinity or NaN.
C2_ParallelGuarded ==
    \A t \in Tests :
        FEq(TestOf(t).locals.determinant, F(0)) =>
            /\ TestOf(t).new_point = None
            /\ IsFinite(TestOf(t).locals.k)
            /\ IsFinite(TestOf(t).locals.lambda)

\* A ray was cast along the line of a boundary (0/0: k is NaN), and a ray
\* parallel to a boundary off its line (k is an infinity).
C2_Witness ==
    /\ \E t \in Tests :
         FEq(TestOf(t).locals.determinant, F(0)) /\ IsNaN(TestOf(t).locals.k)
    /\ \E t \in Tests :
         FEq(TestOf(t).locals.determinant, F(0)) /\ IsInf(TestOf(t).locals.k)

\* The hits of ray r: the points intersect returned, one per boundary that
\* stops the ray; and the distance of a point from the ray's origin.
HitsOf(r) ==
    {Unwrap(rays[r].tests[b].new_point)[1] :
        b \in {c \in 1..Len(model.boundaries) : IsSome(rays[r].tests[c].new_point)}}
DistOf(r, p) == length(VSub(p, rays[r].ray.origin))

Permutations(s) ==
    {[i \in 1..Len(s) |-> s[f[i]]] :
        f \in {g \in [1..Len(s) -> 1..Len(s)] : \A i, j \in 1..Len(s) : g[i] = g[j] => i = j}}

SameOption(a, b, Same(_, _)) ==
    IF IsSome(a) /\ IsSome(b) THEN Same(Unwrap(a), Unwrap(b)) ELSE a = b

\* C3: after the loop, end and length are unset exactly when no boundary stops
\* the ray; otherwise length is the least distance of a hit and end is a hit
\* at that distance; and the loop over any permutation of the boundaries ends
\* with the same end and length.
C3_NearestHit ==
    \A r \in 1..Len(rays) :
        \E ray \in {rays[r].ray}, hits \in {HitsOf(r)} :
            /\ IsSome(ray.end) <=> hits # {}
            /\ IsSome(ray.length) <=> hits # {}
            /\ hits # {} =>
                 /\ \A p \in hits : ~FLt(DistOf(r, p), Unwrap(ray.length))
                 /\ \E p \in hits : VEq(p, Unwrap(ray.end))
                 /\ FEq(DistOf(r, Unwrap(ray.end)), Unwrap(ray.length))
            /\ \A perm \in Permutations(model.boundaries) :
                 \E other \in {cast(Ray_new(model.player, rays[r].angle), perm)} :
                     /\ SameOption(other.end, ray.end, VEq)
                     /\ SameOption(other.length, ray.length, FEq)

\* A ray was cast that two boundaries stop at different distances, the farther
\* one tested first.
C3_Witness ==
    \E r \in 1..Len(rays) :
        \E b, c \in 1..Len(model.boundaries) :
            /\ b < c
            /\ IsSome(rays[r].tests[b].new_point)
            /\ IsSome(rays[r].tests[c].new_point)
            /\ FLt(DistOf(r, Unwrap(rays[r].tests[c].new_point)[1]),
                   DistOf(r, Unwrap(rays[r].tests[b].new_point)[1]))

\* C4, as claimed: every Boundary that exists has a length above 0 and a
\* direction that is defined (Boundary::new returns none for start = end).
C4_NoDegenerateBoundary ==
    \A b \in 1..Len(model.boundaries) :
        /\ FGt(model.boundaries[b].length, F(0))
        /\ ~IsNaN(model.boundaries[b].dir.x)
        /\ ~IsNaN(model.boundaries[b].dir.y)

Square100 == Rect(0, 100, 0, 100)

InScenario ==
    /\ model.boundaries = from_rect(Square100)
    /\ VEq(model.player.pos, pt2(F(50), F(50)))
    /\ VEq(model.player.look_dir, vec2(F(1), F(0)))
    /\ Len(rays) = 1
    /\ FEq(rays[1].angle, F(0))

\* C7: in the square arena (0,0)-(100,100), the ray of the player at (50,50)
\* facing (1,0), at angle 0, ends on the right boundary at (100,50) with
\* lambda = 50 and length 50; the other three boundaries do not stop it.
C7_Scenario ==
    InScenario =>
        /\ SameOption(rays[1].ray.end, Some(pt2(F(100), F(50))), VEq)
        /\ SameOption(rays[1].ray.length, Some(F(50)), FEq)
        /\ FEq(model.boundaries[3].origin.x, F(100))
        /\ FEq(model.boundaries[3].dir.x, F(0))
        /\ IsSome(rays[1].tests[3].new_point)
        /\ VEq(Unwrap(rays[1].tests[3].new_point)[1], pt2(F(100), F(50)))
        /\ FEq(rays[1].tests[3].locals.lambda, F(50))
        /\ \A b \in {1, 2, 4} : rays[1].tests[b].new_point = None

C7_Witness == InScenario /\ IsSome(rays[1].ray.end)

\* The rectangle the boundaries were built from, when from_rect built them
\* from one with an inside.
ArenaOf(r) ==
    /\ r \in GeomRects
    /\ FLt(r.x.start, r.x.end)
    /\ FLt(r.y.start, r.y.end)
    /\ model.boundaries = from_rect(r)

Inside(p, r) ==
    /\ FLt(r.x.start, p.x) /\ FLt(p.x, r.x.end)
    /\ FLt(r.y.start, p.y) /\ FLt(p.y, r.y.end)

\* C9, as claimed: the four boundaries of from_rect close the arena: a ray cast
\* from a point strictly inside the rectangle, in any direction, is stopped by
\* one of them.
C9_ClosedArena ==
    \A r \in 1..Len(rays) :
        (\E a \in GeomRects : ArenaOf(a) /\ Inside(rays[r].ray.origin, a)) =>
            IsSome(rays[r].ray.end)

====
